---- MODULE Spec2Model ----
(***************************************************************************)
(* Model of components/esp_driver_parlio/test_apps/parlio/                 *)
(* pytest_parlio_unity.py: the declaration of test_parlio (its marker      *)
(* decorators and its parametrize list) and the one-line body, run by the  *)
(* pytest / pytest-embedded harness: one session per --target, collection  *)
(* of one item per parametrize value, selection by target marker, fixture  *)
(* setup, the call of the test function, the report and the teardown.      *)
(***************************************************************************)
EXTENDS Integers, Sequences, FiniteSets, TLC

(* ---------------- the declaration (lines 7-19) ---------------- *)

\* variant: the esp32p4 decorator is missing
MarkersMissingTarget == <<"esp32c5", "esp32c6", "esp32h2", "generic">>

\* the decorators of test_parlio other than parametrize, top to bottom
Markers == <<"esp32c5", "esp32c6", "esp32h2", "esp32p4", "generic">>

\* the argument name of the parametrize decorator
ParamName == "config"

\* variant: release is mistyped as a second cache_safe
ConfigParamsDuplicated == <<"cache_safe", "cache_safe">>

\* variant: a third value is listed
ConfigParamsExtra == <<"cache_safe", "release", "default">>

\* the value list of the parametrize decorator
ConfigParams == <<"cache_safe", "release">>

\* indirect=True: the value goes to the fixture named ParamName
Indirect == TRUE

\* the name of the one method the body calls, and its argument list
BodyMethod == "run_all_single_board_cases"

BodyArgs == <<>>

(* ---------------- the harness the file is written for ---------------- *)

\* the chip targets of ESP-IDF; any other marker is not a chip
ChipTargets ==
    {"esp32", "esp32s2", "esp32s3", "esp32c2", "esp32c3", "esp32c5",
     "esp32c6", "esp32c61", "esp32h2", "esp32p4"}

\* the environment markers of the ESP-IDF test harness (runner tags)
EnvMarkers == {"generic"}

IsChipTarget(m) == m \in ChipTargets

Range(s) == {s[i] : i \in DOMAIN s}

MarkerSet == Range(Markers)

\* the chip targets test_parlio is marked with
TargetMarkers == {m \in MarkerSet : IsChipTarget(m)}

\* the --target values a session is started with: every target the test is
\* marked for, and one chip the test is not marked for
SessionTargets == TargetMarkers \cup {"esp32"}

ConfigValues == Range(ConfigParams)

\* the failures the delegated call can raise
Failures == {"assertion", "timeout", "flash"}

\* number of unity cases in the firmware's menu
MaxCases == 2

NoDut == [target |-> "none", config |-> "none"]

NoResult == [outcome |-> "none", log |-> <<>>]

Pairs == SessionTargets \X ConfigValues

VARIABLES
    phase,      \* of the session: "idle", "collecting", "collected", "running"
    target,     \* the session's --target, "none" between sessions
    items,      \* the items pytest collected for test_parlio
    selected,   \* the items left after selection by target
    idx,        \* index in selected of the item being run, 0 if none
    pc,         \* position of the item being run
    dut,        \* the DUT the fixtures provisioned for the item
    exc,        \* the exception in flight, "none" if none
    dutRaised,  \* what the delegated call raised, "none" if it did not
    bodyLog,    \* the calls test_parlio's body made on its DUT
    casesRun,   \* DUT state: unity cases the delegated call has run
    held,       \* resources and processes the harness holds
    results,    \* report: (target, config) -> outcome and body log
    instCount,  \* (target, config) -> number of items selected for it
    ran         \* targets whose session is over

vars == <<phase, target, items, selected, idx, pc, dut, exc, dutRaised,
          bodyLog, casesRun, held, results, instCount, ran>>

sessionVars == <<phase, target, items, selected, idx, ran, instCount>>

Init ==
    /\ phase = "idle"
    /\ target = "none"
    /\ items = <<>>
    /\ selected = <<>>
    /\ idx = 0
    /\ pc = "none"
    /\ dut = NoDut
    /\ exc = "none"
    /\ dutRaised = "none"
    /\ bodyLog = <<>>
    /\ casesRun = 0
    /\ held = {}
    /\ results = [p \in Pairs |-> NoResult]
    /\ instCount = [p \in Pairs |-> 0]
    /\ ran = {}

(* ---------------- collection ---------------- *)

\* pytest -k test_parlio --target t
StartSession(t) ==
    /\ phase = "idle"
    /\ t \notin ran
    /\ target' = t
    /\ phase' = "collecting"
    /\ UNCHANGED <<items, selected, idx, pc, dut, exc, dutRaised, bodyLog,
                   casesRun, held, results, instCount, ran>>

\* the item generated for the k-th value of the parametrize list: it
\* carries the value as the parameter of ParamName and every marker
Item(k) ==
    [param |-> ParamName, config |-> ConfigParams[k],
     indirect |-> Indirect, marks |-> Markers]

\* parametrize generates one item per value of its list, in list order
Collect ==
    /\ phase = "collecting"
    /\ items' = [k \in 1..Len(ConfigParams) |-> Item(k)]
    /\ phase' = "collected"
    /\ UNCHANGED <<target, selected, idx, pc, dut, exc, dutRaised, bodyLog,
                   casesRun, held, results, instCount, ran>>

IsSelected(it) == target \in Range(it.marks)

\* the items not marked with the session's target are deselected
Select ==
    /\ phase = "collected"
    /\ selected' = SelectSeq(items, IsSelected)
    /\ instCount' =
         [p \in Pairs |->
            instCount[p] +
            Cardinality({k \in DOMAIN items :
                           /\ IsSelected(items[k])
                           /\ p = <<target, items[k].config>>})]
    /\ phase' = "running"
    /\ idx' = 0
    /\ UNCHANGED <<target, items, pc, dut, exc, dutRaised, bodyLog,
                   casesRun, held, results, ran>>

(* ---------------- one item ---------------- *)

\* the next item starts: the config fixture receives the parametrize
\* value, the dut fixture opens the port and starts the reader process
Setup ==
    /\ phase = "running"
    /\ pc = "none"
    /\ idx < Len(selected)
    /\ idx' = idx + 1
    /\ dut' = [target |-> target, config |-> selected[idx + 1].config]
    /\ held' = {"port", "reader"}
    /\ casesRun' = 0
    /\ bodyLog' = <<>>
    /\ exc' = "none"
    /\ dutRaised' = "none"
    /\ pc' = "setup_done"
    /\ UNCHANGED <<phase, target, items, selected, results, instCount, ran>>

(* ---------------- test_parlio (lines 20-21) ---------------- *)

\* def test_parlio(dut): the harness calls the function with the DUT
EnterTest ==
    /\ pc = "setup_done"
    /\ pc' = "body"
    /\ UNCHANGED <<sessionVars, dut, exc, dutRaised, bodyLog, casesRun,
                   held, results>>

Call(d) == [recv |-> d, method |-> BodyMethod, args |-> BodyArgs]

\* variant: the body makes the call twice
CallDutTwice ==
    /\ pc = "body"
    /\ bodyLog' = bodyLog \o <<Call(dut), Call(dut)>>
    /\ pc' = "in_dut"
    /\ UNCHANGED <<sessionVars, dut, exc, dutRaised, casesRun, held, results>>

\* variant: the body takes a lock of its own before the call
CallDutLocked ==
    /\ pc = "body"
    /\ bodyLog' = Append(bodyLog, Call(dut))
    /\ held' = held \cup {"lock"}
    /\ pc' = "in_dut"
    /\ UNCHANGED <<sessionVars, dut, exc, dutRaised, casesRun, results>>

\* variant: the body passes the config to the call under release
CallDutByConfig ==
    /\ pc = "body"
    /\ bodyLog' = IF dut.config = "release"
                  THEN Append(bodyLog,
                              [recv |-> dut, method |-> BodyMethod,
                               args |-> <<dut.config>>])
                  ELSE Append(bodyLog, Call(dut))
    /\ pc' = "in_dut"
    /\ UNCHANGED <<sessionVars, dut, exc, dutRaised, casesRun, held, results>>

\* dut.run_all_single_board_cases()
CallDut ==
    /\ pc = "body"
    /\ bodyLog' = Append(bodyLog, Call(dut))
    /\ pc' = "in_dut"
    /\ UNCHANGED <<sessionVars, dut, exc, dutRaised, casesRun, held, results>>

\* the delegated call runs one more case of the menu on the device
DutRunCase ==
    /\ pc = "in_dut"
    /\ casesRun < MaxCases
    /\ casesRun' = casesRun + 1
    /\ UNCHANGED <<sessionVars, pc, dut, exc, dutRaised, bodyLog, held,
                   results>>

\* the delegated call returns normally
DutReturn ==
    /\ pc = "in_dut"
    /\ pc' = "after_call"
    /\ UNCHANGED <<sessionVars, dut, exc, dutRaised, bodyLog, casesRun,
                   held, results>>

\* the delegated call raises
DutRaise(e) ==
    /\ pc = "in_dut"
    /\ exc' = e
    /\ dutRaised' = e
    /\ pc' = "raised"
    /\ UNCHANGED <<sessionVars, dut, bodyLog, casesRun, held, results>>

\* the call was the last statement: the function returns None
ReturnNone ==
    /\ pc = "after_call"
    /\ pc' = "exited"
    /\ UNCHANGED <<sessionVars, dut, exc, dutRaised, bodyLog, casesRun,
                   held, results>>

\* variant: the body catches the exception and returns
PropagateSwallowed ==
    /\ pc = "raised"
    /\ exc' = "none"
    /\ pc' = "exited"
    /\ UNCHANGED <<sessionVars, dut, dutRaised, bodyLog, casesRun, held,
                   results>>

\* no try statement encloses the call: the exception leaves the function
Propagate ==
    /\ pc = "raised"
    /\ pc' = "exited"
    /\ UNCHANGED <<sessionVars, dut, exc, dutRaised, bodyLog, casesRun,
                   held, results>>

(* ---------------- report and teardown ---------------- *)

Outcome(e) == IF e = "none" THEN "passed" ELSE "failed"

\* the harness reports the call: failed iff an exception left the function
Report ==
    /\ pc = "exited"
    /\ results' = [results EXCEPT
                     ![<<dut.target, dut.config>>] =
                        [outcome |-> Outcome(exc), log |-> bodyLog]]
    /\ pc' = "teardown"
    /\ UNCHANGED <<sessionVars, dut, exc, dutRaised, bodyLog, casesRun, held>>

\* the fixtures are finalized: the port is closed, the reader stopped and
\* the item's frame is dropped
Teardown ==
    /\ pc = "teardown"
    /\ held' = {}
    /\ dut' = NoDut
    /\ exc' = "none"
    /\ dutRaised' = "none"
    /\ bodyLog' = <<>>
    /\ casesRun' = 0
    /\ pc' = "none"
    /\ UNCHANGED <<sessionVars, results>>

\* every selected item has run
FinishSession ==
    /\ phase = "running"
    /\ pc = "none"
    /\ idx = Len(selected)
    /\ ran' = ran \cup {target}
    /\ target' = "none"
    /\ phase' = "idle"
    /\ items' = <<>>
    /\ selected' = <<>>
    /\ idx' = 0
    /\ UNCHANGED <<pc, dut, exc, dutRaised, bodyLog, casesRun, held,
                   results, instCount>>

Next ==
    \/ \E t \in SessionTargets : StartSession(t)
    \/ Collect
    \/ Select
    \/ Setup
    \/ EnterTest
    \/ CallDut
    \/ DutRunCase
    \/ DutReturn
    \/ \E e \in Failures : DutRaise(e)
    \/ ReturnNone
    \/ Propagate
    \/ Report
    \/ Teardown
    \/ FinishSession

Spec == Init /\ [][Next]_vars

(* ---------------- properties ---------------- *)

MarksOf(it) == Range(it.marks)

\* the calls of a log without their receiver
Calls(log) == [k \in DOMAIN log |-> [method |-> log[k].method,
                                      args |-> log[k].args]]

Called == {"passed", "failed"}

\* positions at which test_parlio's frame is live
InTest == {"body", "in_dut", "after_call", "raised"}

C2_TwoConfigs ==
    /\ phase \in {"collected", "running"} =>
          {items[k].config : k \in DOMAIN items} = {"cache_safe", "release"}
    /\ (phase = "running" /\ target \in TargetMarkers) =>
          {selected[k].config : k \in DOMAIN selected} =
             {"cache_safe", "release"}
    /\ \A k \in DOMAIN items :
          items[k].param = "config" /\ items[k].indirect
    /\ dut.config \in {"none", "cache_safe", "release"}
    /\ \A p \in Pairs :
          instCount[p] > 0 => p[2] \in {"cache_safe", "release"}

C2_Witness ==
    /\ phase = "running"
    /\ pc = "in_dut"
    /\ dut.config = "release"
    /\ results[<<target, "cache_safe">>].outcome \in Called

\* C3: an execution of test_parlio calls run_all_single_board_cases on the
\* DUT it was given exactly once, with no arguments, and does nothing else
\* on the DUT: the log of its calls is empty before the call and is that
\* one call from then on, also in the report.
C3_ExactlyOneCall ==
    /\ pc \in {"setup_done", "body"} => bodyLog = <<>>
    /\ pc \in {"in_dut", "after_call", "raised", "exited"} =>
          bodyLog = <<[recv |-> dut,
                       method |-> "run_all_single_board_cases",
                       args |-> <<>>]>>
    /\ \A p \in Pairs :
          results[p].outcome \in Called =>
             results[p].log =
                <<[recv |-> [target |-> p[1], config |-> p[2]],
                   method |-> "run_all_single_board_cases",
                   args |-> <<>>]>>

C3_Witness ==
    /\ pc = "exited"
    /\ Len(bodyLog) = 1
    /\ \E p \in Pairs : results[p].outcome = "passed"

C5_FailurePropagates ==
    /\ pc \in {"raised", "exited"} => exc = dutRaised
    /\ (pc \in {"raised", "exited"} /\ dutRaised # "none") =>
          Len(bodyLog) = 1
    /\ pc = "teardown" =>
          results[<<dut.target, dut.config>>].outcome =
             IF dutRaised = "none" THEN "passed" ELSE "failed"

C5_Witness ==
    /\ pc = "teardown"
    /\ dutRaised = "timeout"
    /\ results[<<dut.target, dut.config>>].outcome = "failed"

\* C6: while test_parlio's frame is live, no step changes what the
\* harness holds (port, processes, locks), the DUT it was given, the
\* report or the session; the DUT's state changes only inside the
\* delegated call.
C6_NoOwnEffects ==
    [][(pc \in InTest) =>
          (held' = held /\ dut' = dut /\ results' = results
           /\ UNCHANGED sessionVars
           /\ (pc # "in_dut" => casesRun' = casesRun))]_vars

C6_Witness ==
    /\ pc = "exited"
    /\ held = {"port", "reader"}
    /\ casesRun > 0

\* C7: two runs of test_parlio that differ in config or target make the
\* same calls (same method, same arguments), each on its own DUT: the
\* config value and the target show only in the receiver.
C7_SameCallsForAllConfigs ==
    \A p \in Pairs : \A q \in Pairs :
        (results[p].outcome \in Called /\ results[q].outcome \in Called) =>
           /\ Calls(results[p].log) = Calls(results[q].log)
           /\ \A k \in DOMAIN results[p].log :
                 results[p].log[k].recv = [target |-> p[1], config |-> p[2]]
           /\ (pc = "exited" => Calls(bodyLog) = Calls(results[p].log))

C7_Witness ==
    \E p \in Pairs : \E q \in Pairs :
        /\ p[1] # q[1]
        /\ p[2] # q[2]
        /\ results[p].outcome = "passed"
        /\ results[q].outcome = "failed"
        /\ pc = "exited"
        /\ <<dut.target, dut.config>> \notin {p, q}

====
